---------------------------- MODULE Spec2Model ----------------------------
(***************************************************************************)
(* Model of backend/route_analyzer.py: the stop sequencer                  *)
(* (get_top_stop_orders), the route evaluator (get_safe_route) and the     *)
(* route selector (analyze_routes).                                        *)
(*                                                                         *)
(* Python lists are TLA+ sequences; the Python index i is position i+1.    *)
(* A Python dict with optional keys is a function whose DOMAIN is the set  *)
(* of keys present.  A Python str is a sequence of one-character strings.  *)
(***************************************************************************)
EXTENDS Integers, Sequences, FiniteSets, TLC

VARIABLES
    call,        \* the public function that was called
    pc,          \* position inside the call
    N,           \* len(dist_matrix) = len(points)
    dist_matrix, \* the cost matrix, dist_matrix[i][j] for 0 <= i, j < N
    num_orders,  \* the num_orders argument of get_top_stop_orders
    status,      \* the solver's status after prob.solve
    x,           \* the solver's values of x[i, j] when it found a solution
    order,       \* the reconstructed order (line 64-72)
    orders,      \* the candidate list
    cand,        \* analyze_routes: Python index of the next candidate
    routes,      \* analyze_routes: the routes collected so far
    calls,       \* number of requests sent to the routing service
    failed,      \* analyze_routes: number of candidates whose evaluation raised
    result,      \* the value returned to the caller
    error        \* the exception that left the call, "none" if none

vars == <<call, pc, N, dist_matrix, num_orders, status, x, order, orders,
          cand, routes, calls, failed, result, error>>

-----------------------------------------------------------------------------
(* Bounds of the model *)

MaxStops == 2         \* intermediate stops of a call that runs the solver
MaxCost == 2          \* stop-to-stop costs are 1..MaxCost
MaxNumOrders == 6     \* num_orders of a direct call is 0..MaxNumOrders
MaxAltStops == 5      \* stops of an order handed to the alternates loop
MaxSelectStops == 4   \* stops behind a candidate list handed to the selector
MaxLength == 2        \* leg["summary"]["length"] is 0..MaxLength
MaxManeuvers == 2     \* maneuvers of a leg in a direct get_safe_route call

(* Constants of the program *)

DefaultNumOrders == 5
MaxSwaps == 4
TopRoutes == 3
LeftTurnWeight == 5
TurnDegreeThreshold == 90
TurnDegreeDefault == 0

-----------------------------------------------------------------------------
(* Generic helpers *)

Min(a, b) == IF a <= b THEN a ELSE b

\* lst[:k] for k >= 0
Take(lst, k) == SubSeq(lst, 1, Min(k, Len(lst)))

\* lst[i], Python index
At(lst, i) == lst[i + 1]

\* range(a, b) as a sequence
RangeSeq(a, b) == [i \in 1..(IF b > a THEN b - a ELSE 0) |-> a + i - 1]

RECURSIVE SumOver(_, _)
SumOver(S, f) ==
    IF S = {} THEN 0
    ELSE LET e == CHOOSE e \in S : TRUE IN f[e] + SumOver(S \ {e}, f)

-----------------------------------------------------------------------------
(* get_top_stop_orders: the integer program (lines 44-62) *)

\* n = len(dist_matrix) - 2
NumStops(len) == len - 2

StopRange(n) == 0..(n - 1)

\* the keys of the dict x: (i, j) for i in range(n) for j in range(n) if i != j
XKeys(n) == {p \in StopRange(n) \X StopRange(n) : p[1] # p[2]}

\* the values a Binary variable and an Integer variable in [1, n] can take
XValues(n) == [XKeys(n) -> {0, 1}]
UValues(n) == [StopRange(n) -> 1..n]

\* lpSum(dist_matrix[i + 1][j + 1] * x[i, j] ...)
Objective(n, dm, xv) ==
    SumOver(XKeys(n), [p \in XKeys(n) |-> At(At(dm, p[1] + 1), p[2] + 1) * xv[p]])

\* lpSum(x[i, j] for j != i) == 1 and lpSum(x[j, i] for j != i) == 1
DegreeConstraints(n, xv) ==
    \A i \in StopRange(n) :
        /\ SumOver({p \in XKeys(n) : p[1] = i}, xv) = 1
        /\ SumOver({p \in XKeys(n) : p[2] = i}, xv) = 1

\* u[i] - u[j] + n * x[i, j] <= n - 1 for every i != j
MTZConstraints(n, xv, uv) ==
    \A p \in XKeys(n) : uv[p[1]] - uv[p[2]] + n * xv[p] <= n - 1

FeasibleX(n) ==
    {xv \in XValues(n) :
        /\ DegreeConstraints(n, xv)
        /\ \E uv \in UValues(n) : MTZConstraints(n, xv, uv)}

\* prob.solve: the outcomes of the solver.  With a feasible program it
\* returns one of the minimisers; with an infeasible one it reports
\* Infeasible and leaves the variables' values unspecified.  PuLP reports
\* infeasibility in prob.status and raises nothing; the code never reads it.
\* With n = 0 there is no variable and no constraint: the empty assignment
\* is the solution.  With n = 1 the degree constraints read 0 == 1.
Solve(n, dm) ==
    LET F == FeasibleX(n) IN
    IF F = {} THEN {[status |-> "Infeasible", x |-> <<>>]}
    ELSE {[status |-> "Optimal", x |-> xv] :
             xv \in {a \in F : \A b \in F : Objective(n, dm, a) <= Objective(n, dm, b)}}

-----------------------------------------------------------------------------
(* get_top_stop_orders: path reconstruction (lines 64-72) *)

\* what pulp.value(x[i, j]) == 1 can see: the solution's value, or either
\* outcome when the solver left the value unspecified
ValuesRead(st, xv, i, j) ==
    IF st = "Optimal" THEN {xv[<<i, j>>]} ELSE {0, 1}

\* x[current, j]: a dict lookup, KeyError when the key is absent
HasKey(n, i, j) == <<i, j>> \in XKeys(n)

\* mutant: the destination index off by one
LastIndex_OffByOne(len) == len

\* order.append(len(dist_matrix) - 1)
LastIndex(len) == len - 1

\* The two nested loops, from iteration `it` of the outer loop and j of the
\* inner one.  The result is the set of outcomes: an order, or KeyError.
RECURSIVE Walk(_, _, _, _, _, _, _, _)
Walk(n, len, st, xv, it, current, j, ord) ==
    IF it = n THEN {[raised |-> FALSE, order |-> Append(ord, LastIndex(len))]}
    ELSE IF j = n THEN Walk(n, len, st, xv, it + 1, current, 0, ord)
    ELSE IF ~HasKey(n, current, j) THEN {[raised |-> TRUE, order |-> ord]}
    ELSE UNION {
        IF v = 1
        THEN Walk(n, len, st, xv, it + 1, j, 0, Append(ord, j + 1))
        ELSE Walk(n, len, st, xv, it, current, j + 1, ord)
        : v \in ValuesRead(st, xv, current, j)}

ReconstructOutcomes(n, len, st, xv) == Walk(n, len, st, xv, 0, 0, 0, <<0>>)

-----------------------------------------------------------------------------
(* get_top_stop_orders: alternates and truncation (lines 73-79) *)

\* alt[i], alt[i + 1] = alt[i + 1], alt[i]
SwapAt(ord, i) ==
    [p \in 1..Len(ord) |->
        IF p = i + 1 THEN At(ord, i + 1)
        ELSE IF p = i + 2 THEN At(ord, i)
        ELSE ord[p]]

\* mutant: the swaps start at the origin, range(0, min(n, 4))
SwapIndices_FromOrigin(n) == RangeSeq(0, Min(n, MaxSwaps))

\* for i in range(1, min(n, 4))
SwapIndices(n) == RangeSeq(1, Min(n, MaxSwaps))

\* orders = [order] + one alt per i; return orders[:num_orders]
BuildOrders(ord, n, k) ==
    LET idx == SwapIndices(n)
        all == <<ord>> \o [a \in 1..Len(idx) |-> SwapAt(ord, idx[a])]
    IN  Take(all, k)

-----------------------------------------------------------------------------
(* get_safe_route (lines 82-123) *)

\* str values, as sequences of characters
StrEmpty == <<>>
StrLeft == <<"l", "e", "f", "t">>
StrTurnLeft == <<"T", "u", "r", "n", " ", "l", "e", "f", "t">>
StrTurnRight == <<"T", "u", "r", "n", " ", "r", "i", "g", "h", "t">>

\* sub in s
Contains(sub, s) ==
    \E i \in 0..(Len(s) - Len(sub)) : SubSeq(s, i + 1, i + Len(sub)) = sub

\* d.get(key, default)
Get(d, key, default) == IF key \in DOMAIN d THEN d[key] ELSE default

\* mutant: >= 90 instead of > 90
CountsAsLeftTurn_AtLeast(m) ==
    /\ Get(m, "turn_degree", TurnDegreeDefault) >= TurnDegreeThreshold
    /\ Contains(StrLeft, Get(m, "verbal_turn_alert", StrEmpty))

\* m.get("turn_degree", 0) > 90 and "left" in m.get("verbal_turn_alert", "")
CountsAsLeftTurn(m) ==
    /\ Get(m, "turn_degree", TurnDegreeDefault) > TurnDegreeThreshold
    /\ Contains(StrLeft, Get(m, "verbal_turn_alert", StrEmpty))

\* sum(1 for m in leg["maneuvers"] if ...)
LeftTurns(ms) == Cardinality({i \in 1..Len(ms) : CountsAsLeftTurn(ms[i])})

\* leg["summary"]["length"] + left_turns * 5
RiskScore(leg) == leg["summary"]["length"] + LeftTurns(leg["maneuvers"]) * LeftTurnWeight

\* the returned dict ("time", a float division of a field nothing else
\* reads, is left out)
RouteOf(leg) ==
    [polyline   |-> leg["shape"],
     distance   |-> leg["summary"]["length"],
     risk_score |-> RiskScore(leg),
     maneuvers  |-> leg["maneuvers"]]

\* The outcome of one call, given what the routing service answers:
\*   requests.post / raise_for_status raise a RequestException, which is
\*   re-raised as RuntimeError (lines 103-107);
\*   response.json() raises on a body that is no JSON (line 109);
\*   data["trip"]["legs"][0] raises KeyError or IndexError (line 110).
GetSafeRoute(resp) ==
    IF resp.kind \in {"ConnectionError", "Timeout", "HTTPError"}
        THEN [exc |-> "RuntimeError", route |-> <<>>]
    ELSE IF resp.kind = "InvalidJSON"
        THEN [exc |-> "JSONDecodeError", route |-> <<>>]
    ELSE IF "trip" \notin DOMAIN resp.data
        THEN [exc |-> "KeyError", route |-> <<>>]
    ELSE IF Len(resp.data["trip"]["legs"]) = 0
        THEN [exc |-> "IndexError", route |-> <<>>]
    ELSE [exc |-> "none", route |-> RouteOf(resp.data["trip"]["legs"][1])]

-----------------------------------------------------------------------------
(* analyze_routes (lines 126-139) *)

\* except RuntimeError: continue
Caught(exc) == exc = "RuntimeError"

\* mutant: an unstable sort, an element goes before those of equal key
RECURSIVE InsertByRisk_Unstable(_, _)
InsertByRisk_Unstable(sorted, r) ==
    IF sorted = <<>> THEN <<r>>
    ELSE IF Head(sorted).risk_score < r.risk_score
         THEN <<Head(sorted)>> \o InsertByRisk_Unstable(Tail(sorted), r)
         ELSE <<r>> \o sorted

\* list.sort(key=...) is stable: an element goes after those whose key is
\* not greater
RECURSIVE InsertByRisk(_, _)
InsertByRisk(sorted, r) ==
    IF sorted = <<>> THEN <<r>>
    ELSE IF Head(sorted).risk_score <= r.risk_score
         THEN <<Head(sorted)>> \o InsertByRisk(Tail(sorted), r)
         ELSE <<r>> \o sorted

RECURSIVE SortFrom(_, _)
SortFrom(sorted, rest) ==
    IF rest = <<>> THEN sorted
    ELSE SortFrom(InsertByRisk(sorted, Head(rest)), Tail(rest))

\* routes.sort(key=lambda r: r["risk_score"])
SortByRisk(rs) == SortFrom(<<>>, rs)

\* routes[:3]
TopOf(rs) == Take(rs, TopRoutes)

-----------------------------------------------------------------------------
(* Inputs *)

\* Cost matrices of `len` waypoints (compute_distance_matrix, lines 23-39):
\* zero diagonal, stop-to-stop costs in 1..MaxCost.  The rows and columns
\* of the origin and the destination are never read by get_top_stop_orders
\* (line 51 reads dist_matrix[i + 1][j + 1] for i, j < n) and are set to 1.
Matrices(len) ==
    {[i \in 1..len |-> [j \in 1..len |->
          IF i = j THEN 0
          ELSE IF <<i - 2, j - 2>> \in XKeys(NumStops(len)) THEN c[<<i - 2, j - 2>>]
          ELSE 1]] :
      c \in [XKeys(NumStops(len)) -> 1..MaxCost]}

\* the maneuvers of the routing service's answer: dicts in which either key
\* may be missing
Degrees == {TurnDegreeThreshold, TurnDegreeThreshold + 1}
Alerts == {StrEmpty, StrTurnLeft, StrTurnRight}
Maneuvers ==
    {[turn_degree |-> d, verbal_turn_alert |-> a] : d \in Degrees, a \in Alerts}
    \cup {[turn_degree |-> d] : d \in Degrees}
    \cup {[verbal_turn_alert |-> a] : a \in Alerts}
    \cup {<<>>}

ManeuverLists(k) == UNION {[1..m -> Maneuvers] : m \in 0..k}

SharpLeft == [turn_degree |-> TurnDegreeThreshold + 1, verbal_turn_alert |-> StrTurnLeft]

Shapes == {"shapeA", "shapeB"}

Legs(lengths, mlists) ==
    {[shape |-> s, summary |-> [length |-> d], maneuvers |-> ms] :
        s \in Shapes, d \in lengths, ms \in mlists}

\* what the routing service can answer to one request
Failures ==
    {[kind |-> k, data |-> <<>>] :
        k \in {"ConnectionError", "Timeout", "HTTPError", "InvalidJSON"}}
Malformed ==
    {[kind |-> "JSON", data |-> <<>>],
     [kind |-> "JSON", data |-> [trip |-> [legs |-> <<>>]]]}
Answers(legs) ==
    {[kind |-> "JSON", data |-> [trip |-> [legs |-> <<leg>>]]] : leg \in legs}

\* answers to the requests of analyze_routes
Responses ==
    Failures \cup Malformed
    \cup Answers(Legs(1..MaxLength, {<<>>, <<SharpLeft>>}))

\* answers to the request of a direct call of get_safe_route
DirectResponses ==
    Failures \cup Malformed
    \cup Answers(Legs(0..MaxLength, ManeuverLists(MaxManeuvers)))

-----------------------------------------------------------------------------
(* The calls *)

Start(c, len, dm, k, at) ==
    /\ call = c
    /\ pc = at
    /\ N = len
    /\ dist_matrix = dm
    /\ num_orders = k
    /\ status = "Not Solved"
    /\ x = <<>>
    /\ order = <<>>
    /\ orders = <<>>
    /\ cand = 0
    /\ routes = <<>>
    /\ calls = 0
    /\ failed = 0
    /\ result = <<>>
    /\ error = "none"

\* get_top_stop_orders(dist_matrix, num_orders)
InitSequencer ==
    \E len \in 2..(MaxStops + 2) : \E dm \in Matrices(len) :
        \E k \in 0..MaxNumOrders :
            Start("get_top_stop_orders", len, dm, k, "solve")

\* analyze_routes(origin, destination, stops): points and the matrix are
\* built (lines 127-129), then get_top_stop_orders(dist_matrix, num_orders=5)
InitAnalyze ==
    \E len \in 2..(MaxStops + 2) : \E dm \in Matrices(len) :
        Start("analyze_routes", len, dm, DefaultNumOrders, "solve")

\* get_safe_route(order, points) with the two-point order [0, 1]
InitEvaluator ==
    /\ Start("get_safe_route", 2, <<<<0, 1>>, <<1, 0>>>>, 0, "request")

Init == InitSequencer \/ InitAnalyze \/ InitEvaluator

\* lines 44-62
SolveStep ==
    /\ pc = "solve"
    /\ \E sol \in Solve(NumStops(N), dist_matrix) :
          /\ status' = sol.status
          /\ x' = sol.x
    /\ pc' = "reconstruct"
    /\ UNCHANGED <<call, N, dist_matrix, num_orders, order, orders, cand,
                   routes, calls, failed, result, error>>

\* lines 64-72; a KeyError leaves get_top_stop_orders and, not being caught
\* in analyze_routes (line 130 is outside the try), leaves that too
ReconstructStep ==
    /\ pc = "reconstruct"
    /\ \E out \in ReconstructOutcomes(NumStops(N), N, status, x) :
          IF out.raised
          THEN /\ pc' = "raised"
               /\ error' = "KeyError"
               /\ order' = order
          ELSE /\ pc' = "alternates"
               /\ error' = error
               /\ order' = out.order
    /\ UNCHANGED <<call, N, dist_matrix, num_orders, status, x, orders, cand,
                   routes, calls, failed, result>>

\* lines 73-79: return to the caller, or on to the loop of analyze_routes
AlternatesStep ==
    /\ pc = "alternates"
    /\ orders' = BuildOrders(order, NumStops(N), num_orders)
    /\ IF call = "analyze_routes"
       THEN /\ pc' = "evaluate"
            /\ result' = result
       ELSE /\ pc' = "returned"
            /\ result' = orders'
    /\ UNCHANGED <<call, N, dist_matrix, num_orders, status, x, order, cand,
                   routes, calls, failed, error>>

\* lines 132-137: one iteration of the loop over the candidates
EvaluateStep ==
    /\ pc = "evaluate"
    /\ cand < Len(orders)
    /\ \E resp \in Responses :
          LET out == GetSafeRoute(resp) IN
          /\ calls' = calls + 1
          /\ IF out.exc = "none"
             THEN /\ routes' = Append(routes, out.route)
                  /\ cand' = cand + 1
                  /\ UNCHANGED <<pc, failed, error>>
             ELSE IF Caught(out.exc)
             THEN /\ cand' = cand + 1
                  /\ failed' = failed + 1
                  /\ UNCHANGED <<pc, routes, error>>
             ELSE /\ pc' = "raised"
                  /\ error' = out.exc
                  /\ failed' = failed + 1
                  /\ UNCHANGED <<cand, routes>>
    /\ UNCHANGED <<call, N, dist_matrix, num_orders, status, x, order, orders,
                   result>>

\* lines 138-139: sort in place, return the first three
SelectStep ==
    /\ pc = "evaluate"
    /\ cand = Len(orders)
    /\ routes' = SortByRisk(routes)
    /\ result' = TopOf(routes')
    /\ pc' = "returned"
    /\ UNCHANGED <<call, N, dist_matrix, num_orders, status, x, order, orders,
                   cand, calls, failed, error>>

\* a direct call of get_safe_route: lines 84-123
RouteStep ==
    /\ pc = "request"
    /\ \E resp \in DirectResponses :
          LET out == GetSafeRoute(resp) IN
          /\ calls' = calls + 1
          /\ IF out.exc = "none"
             THEN /\ result' = <<out.route>>
                  /\ pc' = "returned"
                  /\ UNCHANGED <<failed, error>>
             ELSE /\ pc' = "raised"
                  /\ error' = out.exc
                  /\ failed' = failed + 1
                  /\ UNCHANGED result
    /\ UNCHANGED <<call, N, dist_matrix, num_orders, status, x, order, orders,
                   cand, routes>>

Next ==
    \/ SolveStep
    \/ ReconstructStep
    \/ AlternatesStep
    \/ EvaluateStep
    \/ SelectStep
    \/ RouteStep

Spec == Init /\ [][Next]_vars

-----------------------------------------------------------------------------
(* The program from line 73 on.                                            *)
(*                                                                         *)
(* SpecAfterReconstruct starts where the reconstruction loop has produced  *)
(* a stop order of n stops (origin, each stop once, destination) and runs  *)
(* the rest of get_top_stop_orders and of analyze_routes from there.  It   *)
(* covers every order the loop could hand on; Spec shows which of them it  *)
(* does.                                                                   *)

\* the sequences origin, a permutation of the stops 1..n, destination
StopOrders(n) ==
    {[p \in 1..(n + 2) |->
         IF p = 1 THEN 0 ELSE IF p = n + 2 THEN n + 1 ELSE perm[p - 1]] :
      perm \in {f \in [1..n -> 1..n] : \A a, b \in 1..n : f[a] = f[b] => a = b}}

\* the stops in waypoint order
InOrder(n) == RangeSeq(0, n + 2)

UnitMatrix(len) == [i \in 1..len |-> [j \in 1..len |-> IF i = j THEN 0 ELSE 1]]

AfterReconstruct(c, n, ord, k) ==
    /\ call = c
    /\ pc = "alternates"
    /\ N = n + 2
    /\ dist_matrix = UnitMatrix(n + 2)
    /\ num_orders = k
    /\ status = "Optimal"
    /\ x = <<>>
    /\ order = ord
    /\ orders = <<>>
    /\ cand = 0
    /\ routes = <<>>
    /\ calls = 0
    /\ failed = 0
    /\ result = <<>>
    /\ error = "none"

InitAfterReconstruct ==
    \/ \E n \in 0..MaxAltStops : \E ord \in StopOrders(n) :
          \E k \in 0..MaxNumOrders :
              AfterReconstruct("get_top_stop_orders", n, ord, k)
    \/ \E n \in 0..MaxSelectStops :
          AfterReconstruct("analyze_routes", n, InOrder(n), DefaultNumOrders)

NextAfterReconstruct ==
    \/ AlternatesStep
    \/ EvaluateStep
    \/ SelectStep

SpecAfterReconstruct == InitAfterReconstruct /\ [][NextAfterReconstruct]_vars

-----------------------------------------------------------------------------
(* Properties *)

Finished == pc \in {"returned", "raised"}

\* a stop order of `len` waypoints
IsStopOrder(o, len) ==
    /\ Len(o) = len
    /\ o[1] = 0
    /\ o[len] = len - 1
    /\ \A v \in 1..(len - 2) : Cardinality({p \in 1..len : o[p] = v}) = 1

\* C1: every stop order get_top_stop_orders returns has length N, starts
\* with 0, ends with N - 1 and holds each of 1..N-2 exactly once.
C1_StopOrderShape ==
    (call = "get_top_stop_orders" /\ pc = "returned")
        => \A k \in 1..Len(result) : IsStopOrder(result[k], N)

C1_Witness ==
    /\ call = "get_top_stop_orders"
    /\ pc = "returned"
    /\ Len(result) >= 1
    /\ IsStopOrder(result[1], N)

\* C2: with 0 or 1 intermediate stops get_top_stop_orders returns exactly
\* the one trivial order [0, ..., N-1] and raises nothing.
C2_TrivialOrder ==
    (call = "get_top_stop_orders" /\ NumStops(N) <= 1 /\ num_orders >= 1 /\ Finished)
        => (pc = "returned" /\ result = <<RangeSeq(0, N)>>)

\* C3: with n >= 2 intermediate stops get_top_stop_orders returns
\* min(num_orders, 1 + min(n, 4)) stop orders.
C3_CandidateCount ==
    (call = "get_top_stop_orders" /\ NumStops(N) >= 2 /\ Finished)
        => (pc = "returned"
            /\ Len(result) = Min(num_orders, 1 + Min(NumStops(N), 4)))

\* a equals o with the adjacent interior positions p, p + 1 exchanged
IsAdjacentInteriorSwap(a, o) ==
    /\ Len(a) = Len(o)
    /\ \E p \in 2..(Len(o) - 2) :
          /\ a[p] = o[p + 1]
          /\ a[p + 1] = o[p]
          /\ a[p] # o[p]
          /\ \A q \in (1..Len(o)) \ {p, p + 1} : a[q] = o[q]

\* C4: the first candidate is the reconstructed order, every later one is
\* that order with exactly one pair of adjacent interior positions swapped,
\* origin and destination stay in place, and the candidates are pairwise
\* distinct.
C4_AdjacentSwaps ==
    (pc \in {"evaluate", "returned"} /\ call # "get_safe_route")
        => /\ Len(orders) >= 1 => orders[1] = order
           /\ \A k \in 2..Len(orders) : IsAdjacentInteriorSwap(orders[k], order)
           /\ \A k \in 1..Len(orders) :
                 /\ orders[k][1] = order[1]
                 /\ orders[k][Len(order)] = order[Len(order)]
           /\ \A k, l \in 1..Len(orders) : orders[k] = orders[l] => k = l
           /\ call = "get_top_stop_orders" => result = orders

C4_Witness ==
    /\ call = "get_top_stop_orders"
    /\ pc = "returned"
    /\ Len(result) >= 3
    /\ result[1] = order
    /\ result[3] # order

\* C5: when get_safe_route fails for every candidate, analyze_routes ends
\* normally and returns the empty list.
C5_AllFailEmpty ==
    (call = "analyze_routes" /\ Len(orders) >= 1 /\ failed = Len(orders))
        => /\ pc # "raised"
           /\ pc = "returned" => result = <<>>

\* C6: a routing failure for one candidate never aborts analyze_routes:
\* the candidate is dropped and the loop goes on.
C6_FailureRecoverable ==
    call = "analyze_routes" => ~(pc = "raised" /\ calls > 0)

\* r1 at index i comes before r2 at index j in a stable ascending sort
ComesBefore(rs, i, j) ==
    \/ rs[i].risk_score < rs[j].risk_score
    \/ rs[i].risk_score = rs[j].risk_score /\ i < j

\* res is the first min(3, len) routes of rs in stable ascending order
StableTopThree(rs, res) ==
    /\ Len(res) = Min(Len(rs), 3)
    /\ \E idx \in [1..Len(res) -> 1..Len(rs)] :
          /\ \A k \in 1..Len(res) : res[k] = rs[idx[k]]
          /\ \A k, l \in 1..Len(res) : k < l => ComesBefore(rs, idx[k], idx[l])
          /\ \A m \in (1..Len(rs)) \ {idx[k] : k \in 1..Len(res)} :
                \A k \in 1..Len(res) : ComesBefore(rs, idx[k], m)

\* C7: analyze_routes returns at most 3 routes, exactly 3 when more than 3
\* candidates succeeded: the lowest by risk score, ascending, equal scores
\* in the order the candidates were generated.
C7_TopThree ==
    [][(pc = "evaluate" /\ pc' = "returned") => StableTopThree(routes, result')]_vars

C7_Witness ==
    /\ call = "analyze_routes"
    /\ pc = "returned"
    /\ Len(routes) > 3
    /\ Len(result) = 3
    /\ \E k \in 1..2 :
          /\ result[k].risk_score = result[k + 1].risk_score
          /\ result[k] # result[k + 1]

\* C8: when the solver finds the program infeasible, get_top_stop_orders
\* fails with an optimization error, returns no candidate and no routing
\* request is sent.
C8_OptimizationError ==
    (status = "Infeasible" /\ Finished)
        => (pc = "raised" /\ error = "OptimizationError" /\ calls = 0)

\* the maneuvers the claim counts: a turn of more than 90 degrees whose
\* annotation says left
QualifiesAsLeft(m) ==
    /\ "turn_degree" \in DOMAIN m
    /\ m["turn_degree"] > 90
    /\ "verbal_turn_alert" \in DOMAIN m
    /\ m["verbal_turn_alert"] = StrTurnLeft

LegOf(r, d, ms) == [shape |-> r.polyline, summary |-> [length |-> d], maneuvers |-> ms]

\* C9: risk_score = distance + 5 * (number of maneuvers with turn degree
\* > 90 and a left annotation); it does not decrease when the distance
\* grows, one more such maneuver adds exactly 5 and any other adds nothing.
C9_RiskScore ==
    (call = "get_safe_route" /\ pc = "returned") =>
        LET r == result[1] IN
        /\ r.risk_score = r.distance
              + 5 * Cardinality({i \in 1..Len(r.maneuvers) : QualifiesAsLeft(r.maneuvers[i])})
        /\ \A d \in r.distance..(MaxLength + 1) :
              RouteOf(LegOf(r, d, r.maneuvers)).risk_score >= r.risk_score
        /\ \A m \in Maneuvers :
              RouteOf(LegOf(r, r.distance, Append(r.maneuvers, m))).risk_score
                  = r.risk_score + (IF QualifiesAsLeft(m) THEN 5 ELSE 0)

C9_Witness ==
    /\ call = "get_safe_route"
    /\ pc = "returned"
    /\ Len(result[1].maneuvers) = 2
    /\ QualifiesAsLeft(result[1].maneuvers[1])
    /\ ~QualifiesAsLeft(result[1].maneuvers[2])
    /\ result[1].risk_score = result[1].distance + 5

\* the sum of the consecutive stop-to-stop costs of an order
RECURSIVE PathCost(_, _, _)
PathCost(dm, o, p) ==
    IF p + 1 >= Len(o) - 1 THEN 0
    ELSE At(At(dm, o[p + 1]), o[p + 2]) + PathCost(dm, o, p + 1)

StopCost(dm, o) == PathCost(dm, o, 1)

\* C10: with n >= 2 stops the integer program has a solution, and the first
\* candidate reconstructed from it visits every stop once in an order of
\* least total stop-to-stop cost.
C10_OptimalOrder ==
    (call = "get_top_stop_orders" /\ NumStops(N) >= 2 /\ num_orders >= 1 /\ pc # "solve")
        => /\ status = "Optimal"
           /\ pc # "raised"
           /\ pc = "returned" =>
                 /\ IsStopOrder(result[1], N)
                 /\ \A o \in StopOrders(NumStops(N)) :
                       StopCost(dist_matrix, result[1]) <= StopCost(dist_matrix, o)

=============================================================================
